---- MODULE Spec2Model ----
(***************************************************************************)
(* The view-once pipeline of src/new/viewonce.js (class ViewOnceModule):   *)
(* detectViewOnce / processViewOnce and the stages they call, run by the   *)
(* single-threaded event loop.  One action is one turn of the event loop:  *)
(* the code from the completion of an external call (download, codec       *)
(* process, send) up to the next external call the run waits on.           *)
(*                                                                         *)
(* Spec          the hook and processViewOnce, one run at a time           *)
(* SpecDetect    isViewOnceMessage / getViewOnceType on every message      *)
(* SpecRvo       the command 'rvo' (handleRvoCommand)                      *)
(* SpecChat      the chat-kind flags set through updateConfig              *)
(* SpecTranscode processAudioViewOnce on every mimetype                    *)
(* SpecEvict     cleanTempDirectory, init, the interval and destroy, with  *)
(*               the clock moving and runs saving artifacts                *)
(* SpecPair      two runs in flight at the same time                       *)
(* SpecTally     two runs in flight with every outcome of their downloads, *)
(*               writes, codec runs and sends, and the flags changing      *)
(* SpecLive      the interval of viewonce.js firing again and again while  *)
(*               the clock moves and runs save artifacts                   *)
(* SpecStore     get, set, has and delete of src/new/config.js             *)
(***************************************************************************)
EXTENDS Integers, Sequences, FiniteSets, TLC

\* ------------------------------------------------------------------ bounds

\* Number of invocations of the hook / of processViewOnce in one behaviour.
MaxCalls == 1

\* The last millisecond of the clock, where the clock moves.
MaxTime == 2

\* The pipeline runs in flight.  Spec follows one run at a time.
Slots == {"r1"}

VARIABLES
    now,        \* Date.now(); Spec holds the clock still (one millisecond)
    config,     \* this.config (the flags the pipeline reads)
    stats,      \* this.stats
    tempDir,    \* files under this.config.tempDir: name -> bytes
    osTmp,      \* files under os.tmpdir(): path -> bytes
    sent,       \* calls of this.bot.sock.sendMessage
    downloads,  \* calls of this.bot.sock.downloadMediaMessage
    calls,      \* invocations started so far
    pc,         \* per slot: the external call the run waits on
    run,        \* per slot: the locals of the run
    probe,      \* input and outputs of the detector applied on its own
    reports,    \* messages the command handlers sent to the invoking chat
    dirExists,  \* fs.existsSync(this.config.tempDir)
    sched,      \* what init() and destroy() have done; the interval registered
    sweep,      \* the last call of cleanTempDirectory: its inputs and outcome
    settings,   \* this.config of the Config singleton of config.js
    answer      \* the last call of get, set, has or delete of config.js

vars == <<now, config, stats, tempDir, osTmp, sent, downloads, calls, pc, run, probe,
          reports, dirExists, sched, sweep, settings, answer>>

\* The configuration store of config.js and its last call.
store == <<settings, answer>>

\* The state of the temp directory sweep and of its timer.
cleanup == <<dirExists, sched, sweep>>

\* ------------------------------------------------------------------ values

NoBytes == <<>>
None == <<>>
Some(x) == <<x>>

Wrappers == {"none", "viewOnceMessage", "viewOnceMessageV2", "viewOnceMessageV2Extension"}
NodeStates == {"absent", "plain", "viewOnce"}
Mimes == {"", "image/jpeg", "video/mp4", "audio/ogg", "audio/ogg; codecs=opus", "audio/mpeg"}

\* An inbound message.  hasMessage: msg.message is present.  wrapper: the
\* wrapper node msg.message carries, if any; image/video/audio: the media
\* nodes, which sit directly in msg.message when wrapper = "none" and inside
\* the wrapper's inner message otherwise.  mime: the mimetype field of the
\* media nodes ("" when the field is missing).  chat: msg.key.remoteJid.
AllEnvelopes ==
    [hasMessage : BOOLEAN, wrapper : Wrappers, image : NodeStates, video : NodeStates,
     audio : NodeStates, mime : Mimes, chat : {"c@g.us"}]

Env(w, i, v, a, m) ==
    [hasMessage |-> TRUE, wrapper |-> w, image |-> i, video |-> v, audio |-> a,
     mime |-> m, chat |-> "c@g.us"]

\* The messages the pipeline runs are fed.
Envelopes ==
    { [Env("none", "absent", "absent", "absent", "") EXCEPT !.hasMessage = FALSE],
      Env("none", "plain", "absent", "absent", "image/jpeg"),
      Env("none", "viewOnce", "absent", "absent", "image/jpeg"),
      Env("none", "absent", "viewOnce", "absent", "video/mp4"),
      Env("none", "absent", "absent", "viewOnce", "audio/ogg"),
      Env("none", "absent", "absent", "viewOnce", "audio/mpeg"),
      Env("viewOnceMessageV2", "viewOnce", "absent", "absent", "image/jpeg") }

\* The bytes the chat client holds for the message of invocation id.
RawBytes(id) == <<"raw", id>>
\* What the codec process writes for an input file holding b.
Convert(b) == <<"mp3">> \o b

\* ------------------------------------------------------------------ detector

\* message.<kind>Message?.viewOnce, read on msg.message itself.
NodeFlag(msg, kind) == msg.wrapper = "none" /\ msg[kind] = "viewOnce"

\* isViewOnceMessage without the test of the viewOnce flag.
isViewOnceMessageAnyMedia(msg) ==
    /\ msg.hasMessage
    /\ msg.wrapper = "none"
    /\ \E kind \in {"image", "video", "audio"} : msg[kind] # "absent"

isViewOnceMessage(msg) ==
    IF ~msg.hasMessage THEN FALSE
    ELSE NodeFlag(msg, "image") \/ NodeFlag(msg, "video") \/ NodeFlag(msg, "audio")

getViewOnceType(msg) ==
    IF ~msg.hasMessage THEN "null"
    ELSE IF NodeFlag(msg, "image") THEN "image"
    ELSE IF NodeFlag(msg, "video") THEN "video"
    ELSE IF NodeFlag(msg, "audio") THEN "audio"
    ELSE "null"

\* msg.message[`${type}Message`] is present.
HasNode(msg, type) == msg.wrapper = "none" /\ msg[type] # "absent"

Extension(type, mimetype) ==
    CASE mimetype = "image/jpeg" -> "jpg"
      [] mimetype = "image/png" -> "png"
      [] mimetype = "image/webp" -> "webp"
      [] mimetype = "video/mp4" -> "mp4"
      [] mimetype = "video/3gpp" -> "3gp"
      [] mimetype = "audio/mp4" -> "mp3"
      [] mimetype = "audio/ogg" -> "ogg"
      [] mimetype = "audio/mpeg" -> "mp3"
      [] OTHER -> type

generateFilename(type, mimetype) == <<type, now, Extension(type, mimetype)>>

\* The test of the mimetype taking every known audio type for Ogg.
IsOggAnyAudio(mimetype) == mimetype \in {"audio/ogg", "audio/ogg; codecs=opus", "audio/mpeg"}

\* /ogg/.test(mimetype)
IsOgg(mimetype) == mimetype \in {"audio/ogg", "audio/ogg; codecs=opus"}

\* ------------------------------------------------------------------ files

\* A directory is a set of files [path, bytes, mtime], one per path.
Exists(dir, p) == \E f \in dir : f.path = p
Content(dir, p) == (CHOOSE f \in dir : f.path = p).bytes
RemoveFile(dir, p) == {f \in dir : f.path # p}
WriteFile(dir, p, b) == RemoveFile(dir, p) \cup {[path |-> p, bytes |-> b, mtime |-> now]}

\* ------------------------------------------------------------------ a run

NoMedia == [type |-> "null", buffer |-> NoBytes, mimetype |-> "", filename |-> <<>>]
NoTx == [state |-> "none", value |-> NoBytes, inputPath |-> <<>>, outputPath |-> <<>>,
         stage |-> "none"]
NoMsg == [Env("none", "absent", "absent", "absent", "") EXCEPT !.hasMessage = FALSE]

\* The locals of a run.  rvo: where handleRvoCommand stands, for a run it
\* started.  History, not read by the code: ev, what the run has done so far;
\* original, the bytes the download returned; caught, the message of the error
\* downloadViewOnceMedia caught; cfgSave and cfgFwd, config.saveToTemp and
\* config.autoForward as they stood when the run read them; cfgChat, the
\* chat-kind flags of config as they stood at the forward stage; left, the
\* codec files of the run that were still there when their transcode settled;
\* snapSave and snapFwd, the two flags of config together as they stood at
\* the read of line 332 and at the read of line 338.
IdleRun ==
    [id |-> 0, msg |-> NoMsg, entry |-> "none", isOwner |-> FALSE, mediaData |-> NoMedia,
     original |-> NoBytes, tx |-> NoTx, cfgSave |-> None, cfgFwd |-> None,
     savedPath |-> None, forwarded |-> FALSE, result |-> None, ev |-> <<>>,
     rvo |-> "none", caught |-> "", cfgChat |-> None, left |-> {}, snapSave |-> None,
     snapFwd |-> None]

\* The state one turn of a run works on: its locals r, where it waits next,
\* and the shared objects it can change.
Bundle(slot) ==
    [r |-> run[slot], pc |-> pc[slot], stats |-> stats, tempDir |-> tempDir,
     osTmp |-> osTmp, sent |-> sent, downloads |-> downloads, reports |-> reports]

Ev(S, e) == [S EXCEPT !.r.ev = Append(@, e)]

\* What a turn may meet in the file system: whether the writes it issues
\* succeed (create1/create2: the codec input file of the transcode of
\* processViewOnce / of forwardViewOnce; write: the artifact of saveToTemp).
FsOutcomes == [create1 : BOOLEAN, write : BOOLEAN, create2 : BOOLEAN]

\* return of processViewOnce / detectViewOnce with no value (undefined).
ReturnNothing(S) == [Ev(S, "return") EXCEPT !.pc = "done", !.r.result = None]

\* Record storing a count of one instead of adding one to the count.
RecordStoresOne(S) ==
    LET T == Ev(Ev(S, "inc_processed"), "return")
    IN [T EXCEPT !.stats.processed = 1,
                 !.pc = "done",
                 !.r.result = Some([success |-> TRUE, mediaData |-> S.r.mediaData,
                                    savedPath |-> S.r.savedPath,
                                    forwarded |-> S.r.forwarded, error |-> ""])]

\* processViewOnce, lines 342-352.
Record(S) ==
    LET T == Ev(Ev(S, "inc_processed"), "return")
    IN [T EXCEPT !.stats.processed = @ + 1,
                 !.pc = "done",
                 !.r.result = Some([success |-> TRUE, mediaData |-> S.r.mediaData,
                                    savedPath |-> S.r.savedPath,
                                    forwarded |-> S.r.forwarded, error |-> ""])]

\* this.bot.sock.sendMessage(chatId, messageContent) is called: line 239.
SendCall(S, kind, bytes, mimetype) ==
    [Ev(S, "send_call") EXCEPT
        !.sent = @ \cup {[id |-> S.r.id, chat |-> S.r.msg.chat, kind |-> kind,
                          bytes |-> bytes, mimetype |-> mimetype]},
        !.pc = "send"]

\* The executor of the promise of processAudioViewOnce, up to exec(): lines 258-288.
ProcessAudioExecutor(S, audioBuffer, mimetype, createOk, stage) ==
    IF IsOgg(mimetype)
    THEN LET inputPath == <<"input_", now, ".ogg">>
             outputPath == <<"output_", now, ".mp3">>
         IN IF createOk
            THEN [Ev(S, IF stage = "process" THEN "exec_process" ELSE "exec_forward") EXCEPT
                    !.osTmp = WriteFile(@, inputPath, audioBuffer),
                    !.r.tx = [state |-> "exec", value |-> NoBytes, inputPath |-> inputPath,
                              outputPath |-> outputPath, stage |-> stage],
                    !.pc = "exec"]
            ELSE [S EXCEPT !.r.tx = [NoTx EXCEPT !.state = "rejected", !.stage = stage]]
    ELSE [S EXCEPT !.r.tx = [NoTx EXCEPT !.state = "resolved", !.value = audioBuffer,
                                         !.stage = stage]]

\* forwardViewOnce from the end of its audio transcode: lines 225-239.
ForwardAudio(S) ==
    LET audioBuffer == IF S.r.tx.state = "resolved" THEN S.r.tx.value
                       ELSE S.r.mediaData.buffer
        mimetype == IF S.r.mediaData.mimetype = "" THEN "audio/mp4"
                    ELSE S.r.mediaData.mimetype
    IN SendCall(S, "audio", audioBuffer, mimetype)

\* forwardViewOnce up to its first external call: lines 197-239.
forwardViewOnce(S, fs) ==
    CASE S.r.mediaData.type \in {"image", "video"} ->
            SendCall(S, S.r.mediaData.type, S.r.mediaData.buffer, S.r.mediaData.mimetype)
      [] S.r.mediaData.type = "audio" ->
            LET T == ProcessAudioExecutor(S, S.r.mediaData.buffer, S.r.mediaData.mimetype,
                                          fs.create2, "forward")
            IN IF T.r.tx.state = "exec" THEN T ELSE ForwardAudio(T)
      [] OTHER -> Record([S EXCEPT !.r.forwarded = FALSE])

\* The flags handleViewOnceCommand sets for the two kinds of chat.
ChatKeys == {"enableInGroups", "enableInPrivate"}

\* The chat-kind flags this.config holds (none until updateConfig adds them).
ChatFlags(cfg) == [k \in ChatKeys \cap DOMAIN cfg |-> cfg[k]]

\* The two flags of this.config a run acts on.
StageFlags(cfg) == [saveToTemp |-> cfg.saveToTemp, autoForward |-> cfg.autoForward]

\* The forward stage without its test of autoForward.
AutoForwardAlways(cfg) == TRUE

\* config.autoForward as read at line 338.
AutoForward(cfg) == cfg.autoForward

\* processViewOnce, lines 336-340.
ForwardStage(S, fs) ==
    LET T == [S EXCEPT !.r.cfgFwd = Some(config.autoForward),
                       !.r.cfgChat = Some(ChatFlags(config)),
                       !.r.snapFwd = Some(StageFlags(config))]
    IN IF AutoForward(config) THEN forwardViewOnce(T, fs) ELSE Record(T)

\* saveToTemp counting the artifact before it is written.
saveToTempCountsFirst(S, writeOk) ==
    LET filename == <<"viewonce_", now>> \o S.r.mediaData.filename
        T == [Ev(S, "inc_saved") EXCEPT !.stats.saved = @ + 1]
    IN IF writeOk /\ dirExists
       THEN [Ev(T, "write_ok") EXCEPT
                !.tempDir = WriteFile(@, filename, S.r.mediaData.buffer),
                !.r.savedPath = Some(filename)]
       ELSE [Ev(T, "write_fail") EXCEPT !.r.savedPath = None]

\* saveToTemp, lines 174-189.
saveToTemp(S, writeOk) ==
    LET filename == <<"viewonce_", now>> \o S.r.mediaData.filename
    IN IF writeOk /\ dirExists
       THEN [Ev(Ev(S, "write_ok"), "inc_saved") EXCEPT
                !.tempDir = WriteFile(@, filename, S.r.mediaData.buffer),
                !.stats.saved = @ + 1,
                !.r.savedPath = Some(filename)]
       ELSE [Ev(S, "write_fail") EXCEPT !.r.savedPath = None]

\* The persist stage without its test of saveToTemp.
SaveAlways(cfg) == TRUE

\* config.saveToTemp as read at line 332.
SaveEnabled(cfg) == cfg.saveToTemp

\* processViewOnce, lines 328-334, and on to the forward stage.
PersistStage(S, fs) ==
    LET T == [S EXCEPT !.r.cfgSave = Some(config.saveToTemp),
                       !.r.snapSave = Some(StageFlags(config))]
    IN ForwardStage(IF SaveEnabled(config) THEN saveToTemp(T, fs.write) ELSE T, fs)

\* The transcode stage labelling the converted bytes as MP3.
AfterTranscodeRelabels(S, fs) ==
    PersistStage(IF S.r.tx.state = "resolved"
                 THEN [Ev(S, "tx_ok") EXCEPT !.r.mediaData.buffer = S.r.tx.value,
                                             !.r.mediaData.mimetype = "audio/mpeg"]
                 ELSE Ev(S, "tx_fail"),
                 fs)

\* processViewOnce from the end of its transcode: lines 322-326.
AfterTranscode(S, fs) ==
    PersistStage(IF S.r.tx.state = "resolved"
                 THEN [Ev(S, "tx_ok") EXCEPT !.r.mediaData.buffer = S.r.tx.value]
                 ELSE Ev(S, "tx_fail"),
                 fs)

\* processViewOnce, lines 319-326, up to the first external call.
TranscodeStage(S, fs) ==
    IF S.r.mediaData.type = "audio"
    THEN LET T == ProcessAudioExecutor(S, S.r.mediaData.buffer, S.r.mediaData.mimetype,
                                       fs.create1, "process")
         IN IF T.r.tx.state = "exec" THEN T ELSE AfterTranscode(T, fs)
    ELSE PersistStage(S, fs)

\* mediaMessage.mimetype || `${type}/unknown`
MimeOrUnknown(type, mimetype) ==
    IF mimetype # "" THEN mimetype
    ELSE CASE type = "image" -> "image/unknown"
           [] type = "video" -> "video/unknown"
           [] OTHER -> "audio/unknown"

\* downloadViewOnceMedia up to the call of downloadMediaMessage (lines 143-152);
\* FALSE when it returns null before the call.
DownloadIsCalled(msg) ==
    /\ getViewOnceType(msg) # "null"
    /\ HasNode(msg, getViewOnceType(msg))

\* processViewOnce up to its first external call: lines 312-317.
processViewOnce(S) ==
    IF ~isViewOnceMessage(S.r.msg) THEN ReturnNothing(S)
    ELSE IF ~DownloadIsCalled(S.r.msg) THEN ReturnNothing(Ev(S, "detect"))
    ELSE [Ev(Ev(S, "detect"), "download_call") EXCEPT
            !.downloads = @ \cup {S.r.id}, !.pc = "download"]

\* The owner filter without its test of skipOwner.
OwnerSkippedAnySetting(isOwner, cfg) == isOwner

\* isOwner && this.config.skipOwner, line 302.
OwnerSkipped(isOwner, cfg) == isOwner /\ cfg.skipOwner

\* detectViewOnce, lines 296-305.
detectViewOnce(S) ==
    IF ~isViewOnceMessage(S.r.msg) THEN ReturnNothing(S)
    ELSE IF OwnerSkipped(S.r.isOwner, config) THEN ReturnNothing(S)
    ELSE processViewOnce(S)

\* What downloadViewOnceMedia returns once downloadMediaMessage has settled
\* (lines 152-165): the media data, or NoMedia for null.
DownloadResult(r, outcome) ==
    IF outcome = "ok"
    THEN LET type == getViewOnceType(r.msg)
         IN [type |-> type, buffer |-> RawBytes(r.id),
             mimetype |-> MimeOrUnknown(type, r.msg.mime),
             filename |-> generateFilename(type, r.msg.mime)]
    ELSE NoMedia

\* processViewOnce without the return on a failed download.
AfterDownloadNoReturn(S, outcome, fs) ==
    LET mediaData == DownloadResult(S.r, outcome)
    IN IF mediaData = NoMedia
       THEN TranscodeStage([Ev(S, "download_fail") EXCEPT
                                !.r.mediaData = [NoMedia EXCEPT !.type = "image"]], fs)
       ELSE TranscodeStage([Ev(S, "download_ok") EXCEPT !.r.mediaData = mediaData,
                                                         !.r.original = mediaData.buffer],
                           fs)

\* processViewOnce from the settling of the download: lines 316-317 and on.
AfterDownload(S, outcome, fs) ==
    LET mediaData == DownloadResult(S.r, outcome)
    IN IF mediaData = NoMedia
       THEN ReturnNothing([Ev(S, "download_fail") EXCEPT
                              !.r.caught = IF outcome = "throw" THEN "download error"
                                           ELSE ""])
       ELSE TranscodeStage([Ev(S, "download_ok") EXCEPT !.r.mediaData = mediaData,
                                                         !.r.original = mediaData.buffer],
                           fs)

\* What the codec process and the file system do to one exec callback:
\* err: the process fails; rmIn, read, rmOut: unlinkSync(inputPath),
\* readFileSync(outputPath), unlinkSync(outputPath) succeed.
ExecOutcomes == [err : BOOLEAN, rmIn : BOOLEAN, read : BOOLEAN, rmOut : BOOLEAN]

\* The codec process: it writes outputPath from the input file it finds.
CodecFails(S, o) == o.err \/ ~Exists(S.osTmp, S.r.tx.inputPath)

Codec(S, o) ==
    IF CodecFails(S, o) THEN S
    ELSE [S EXCEPT !.osTmp = WriteFile(@, S.r.tx.outputPath,
                                       Convert(Content(S.osTmp, S.r.tx.inputPath)))]

\* The promise of processAudioViewOnce has settled: the codec files of the
\* run that are still in os.tmpdir() are noted.
Settled(S) ==
    [S EXCEPT !.r.left = @ \cup {p \in {S.r.tx.inputPath, S.r.tx.outputPath} :
                                     Exists(S.osTmp, p)}]

\* The callback of exec, lines 266-281: the promise is resolved, rejected, or
\* left pending by an exception thrown out of the callback (state "thrown").
ExecCallback(S, o) ==
    LET err == CodecFails(S, o)
        C == Codec(S, o)
        inputPath == S.r.tx.inputPath
        outputPath == S.r.tx.outputPath
    IN IF ~(o.rmIn /\ Exists(C.osTmp, inputPath))
       THEN [Ev(C, "uncaught") EXCEPT !.r.tx.state = "thrown", !.pc = "stuck"]
       ELSE LET D == [C EXCEPT !.osTmp = RemoveFile(@, inputPath)]
            IN Settled(IF err THEN [D EXCEPT !.r.tx.state = "rejected"]
                       ELSE IF ~(o.read /\ Exists(D.osTmp, outputPath))
                            THEN [D EXCEPT !.r.tx.state = "rejected"]
                       ELSE IF ~o.rmOut THEN [D EXCEPT !.r.tx.state = "rejected"]
                       ELSE [D EXCEPT !.osTmp = RemoveFile(@, outputPath),
                                      !.r.tx.state = "resolved",
                                      !.r.tx.value = Content(D.osTmp, outputPath)])

\* The run from the exec callback on.
AfterExec(S, o, fs) ==
    LET T == ExecCallback(S, o)
    IN IF T.pc = "stuck" THEN T
       ELSE IF T.r.tx.stage = "process" THEN AfterTranscode(T, fs)
       ELSE ForwardAudio(T)

\* forwardViewOnce letting the exception of sendMessage reach the catch of
\* processViewOnce (lines 353-357).
AfterSendRethrows(S, ok) ==
    IF ok
    THEN Record([Ev(Ev(S, "send_ok"), "inc_forwarded") EXCEPT
                    !.stats.forwarded = @ + 1, !.r.forwarded = TRUE])
    ELSE [Ev(Ev(Ev(S, "send_fail"), "inc_errors"), "return") EXCEPT
            !.stats.errors = @ + 1,
            !.pc = "done",
            !.r.result = Some([success |-> FALSE, mediaData |-> NoMedia,
                               savedPath |-> None, forwarded |-> FALSE,
                               error |-> "send failed"])]

\* forwardViewOnce from the settling of sendMessage, lines 239-248, and the
\* rest of processViewOnce.
AfterSend(S, ok) ==
    Record(IF ok
           THEN [Ev(Ev(S, "send_ok"), "inc_forwarded") EXCEPT
                    !.stats.forwarded = @ + 1, !.r.forwarded = TRUE]
           ELSE [Ev(Ev(S, "send_fail"), "inc_errors") EXCEPT
                    !.stats.errors = @ + 1, !.r.forwarded = FALSE])

\* ------------------------------------------------------------------ manual reveal

\* context.bot.sendMessage / context.bot.sock.sendMessage to context.sender
\* is called by handleRvoCommand, which goes to stage next and waits.
Report(S, kind, error, next) ==
    [Ev(S, "report_call") EXCEPT
        !.reports = @ \cup {[id |-> S.r.id, to |-> S.r.msg.chat, kind |-> kind,
                             error |-> error]},
        !.r.rvo = next,
        !.pc = "report"]

\* result?.error || 'Unknown error', line 393.
ErrorText(result) ==
    IF result # None /\ result[1].error # "" THEN result[1].error ELSE "Unknown error"

\* handleRvoCommand from the settling of processViewOnce: lines 384-396.
ReportOutcome(S) ==
    IF S.r.result # None /\ S.r.result[1].success
    THEN Report(S, "success", "", "outcome")
    ELSE Report(S, "failed", ErrorText(S.r.result), "outcome")

\* The turn of a run goes on in the command handler that awaits it.
Continue(S) ==
    IF S.r.rvo = "process" /\ S.pc = "done" THEN ReportOutcome(S) ELSE S

\* handleRvoCommand up to its first send: lines 366-381.
handleRvoCommand(S, quoted) ==
    IF quoted = None THEN Report(S, "usage", "", "last")
    ELSE IF ~isViewOnceMessage(S.r.msg) THEN Report(S, "not_viewonce", "", "last")
    ELSE Report(S, "processing", "", "ack")

\* The handler's promise is rejected: a send outside its try threw.
Rejected(S) == [Ev(S, "rejected") EXCEPT !.r.rvo = "rejected", !.pc = "done"]

\* handleRvoCommand from the settling of one of its sends.
AfterReport(S, ok) ==
    CASE S.r.rvo = "ack" ->
            IF ok THEN Continue(processViewOnce([S EXCEPT !.r.rvo = "process"]))
            ELSE Rejected(S)
      [] S.r.rvo = "outcome" ->
            IF ok THEN [S EXCEPT !.r.rvo = "reported", !.pc = "done"]
            ELSE Report(S, "failed", "send error", "catch")
      [] OTHER ->
            IF ok THEN [S EXCEPT !.r.rvo = "closed", !.pc = "done"]
            ELSE Rejected(S)

\* ------------------------------------------------------------------ actions

Commit(slot, S) ==
    LET T == Continue(S)
    IN /\ run' = [run EXCEPT ![slot] = T.r]
       /\ pc' = [pc EXCEPT ![slot] = T.pc]
       /\ stats' = T.stats
       /\ tempDir' = T.tempDir
       /\ osTmp' = T.osTmp
       /\ sent' = T.sent
       /\ downloads' = T.downloads
       /\ reports' = T.reports

Started(slot, msg, entry, isOwner) ==
    [Bundle(slot) EXCEPT !.r = [IdleRun EXCEPT !.id = calls + 1, !.msg = msg,
                                               !.entry = entry, !.isOwner = isOwner]]

\* The message hook 'viewonce.detect' is invoked for an inbound message.
DetectViewOnce(slot, msg, isOwner) ==
    /\ pc[slot] = "idle"
    /\ calls < MaxCalls
    /\ calls' = calls + 1
    /\ Commit(slot, detectViewOnce(Started(slot, msg, "hook", isOwner)))
    /\ UNCHANGED <<store, now, config, probe, cleanup>>

\* processViewOnce is invoked directly (the manual reveal of a quoted message).
ProcessViewOnce(slot, msg) ==
    /\ pc[slot] = "idle"
    /\ calls < MaxCalls
    /\ calls' = calls + 1
    /\ Commit(slot, processViewOnce(Started(slot, msg, "direct", FALSE)))
    /\ UNCHANGED <<store, now, config, probe, cleanup>>

\* The command 'rvo' is executed on a message that quotes quoted (or nothing).
HandleRvoCommand(slot, quoted, isOwner) ==
    /\ pc[slot] = "idle"
    /\ calls < MaxCalls
    /\ calls' = calls + 1
    /\ Commit(slot, handleRvoCommand(Started(slot, IF quoted = None THEN NoMsg ELSE quoted[1],
                                              "rvo", isOwner), quoted))
    /\ UNCHANGED <<store, now, config, probe, cleanup>>

\* A send of handleRvoCommand settles: acknowledged, or by throwing.
ReportDone(slot, ok) ==
    /\ pc[slot] = "report"
    /\ Commit(slot, AfterReport(Bundle(slot), ok))
    /\ UNCHANGED <<store, now, config, calls, probe, cleanup>>

\* downloadMediaMessage settles: with bytes, with nothing, or by throwing.
DownloadDone(slot, outcome, fs) ==
    /\ pc[slot] = "download"
    /\ Commit(slot, AfterDownload(Bundle(slot), outcome, fs))
    /\ UNCHANGED <<store, now, config, calls, probe, cleanup>>

\* The codec process ends and the exec callback runs.
ExecDone(slot, o, fs) ==
    /\ pc[slot] = "exec"
    /\ Commit(slot, AfterExec(Bundle(slot), o, fs))
    /\ UNCHANGED <<store, now, config, calls, probe, cleanup>>

\* sendMessage settles: acknowledged, or by throwing.
SendDone(slot, ok) ==
    /\ pc[slot] = "send"
    /\ Commit(slot, AfterSend(Bundle(slot), ok))
    /\ UNCHANGED <<store, now, config, calls, probe, cleanup>>

\* The caller has taken the result; the slot serves the next invocation.
Reap(slot) ==
    /\ pc[slot] = "done"
    /\ run' = [run EXCEPT ![slot] = IdleRun]
    /\ pc' = [pc EXCEPT ![slot] = "idle"]
    /\ UNCHANGED <<store, now, config, stats, tempDir, osTmp, sent, downloads, calls, probe,
                   reports, cleanup>>

\* updateConfig(newConfig), lines 555-558.
UpdateConfig(key, value) ==
    /\ IF key \in DOMAIN config THEN config[key] # value ELSE TRUE
    /\ config' = [k \in DOMAIN config \cup {key} |-> IF k = key THEN value ELSE config[k]]
    /\ UNCHANGED <<store, now, stats, tempDir, osTmp, sent, downloads, calls, pc, run, probe,
                   reports, cleanup>>

\* handleViewOnceToggle with 'on' / 'off', line 427.
HandleViewOnceToggle(on) ==
    /\ config.autoForward # on
    /\ config' = [config EXCEPT !.autoForward = on]
    /\ UNCHANGED <<store, now, stats, tempDir, osTmp, sent, downloads, calls, pc, run, probe,
                   reports, cleanup>>

ConfigKeys == {"autoForward", "saveToTemp", "skipOwner"}

NoProbe == [stage |-> "off", msg |-> NoMsg, isViewOnce |-> FALSE, type |-> "null"]

\* Neither init() nor destroy() has run.  variant: which init() ran, that of
\* viewonce.js ("module") or that of viewonce-module.js ("wrapper").
NotStarted == [init |-> FALSE, timer |-> FALSE, destroyed |-> FALSE, variant |-> "none"]

\* init() has run and destroy() has not: the directory is there and the
\* interval is registered.
Running == [NotStarted EXCEPT !.init = TRUE, !.timer = TRUE, !.variant = "module"]

\* cleanTempDirectory has not been called.  flip changes at every call.
NoSweep ==
    [flip |-> FALSE, by |-> "none", maxAge |-> 0, gone |-> {}, failed |-> {},
     cleaned |-> 0, error |-> FALSE, pending |-> {}]

\* ------------------------------------------------------------------ the configuration store

\* The JSON values the store holds: an object (a mapping of keys to values),
\* null, or a string, number or boolean (a scalar); and undefined.
Obj(m) == [t |-> "object", m |-> m]
Null == [t |-> "null"]
Scalar(x) == [t |-> "scalar", v |-> x]
Undefined == [t |-> "undefined"]

\* typeof value === 'object': true of objects and of null.
TypeofObject(value) == value.t \in {"object", "null"}

\* The truthiness get tests with `value &&`: null and undefined are falsy
\* (the scalars of this model are truthy).
Truthy(value) == value.t \notin {"null", "undefined"}

\* k in value, for an object.
In(k, value) == k \in DOMAIN value.m

\* value[k] = v and delete value[k] on the mapping of an object.
With(m, k, v) == [x \in DOMAIN m \cup {k} |-> IF x = k THEN v ELSE m[x]]
Without(m, k) == [x \in DOMAIN m \ {k} |-> m[x]]

\* The loop of get(key, defaultValue), lines 64-77, from value on; keys is
\* key.split('.').
RECURSIVE get(_, _, _)
get(value, keys, defaultValue) ==
    IF keys = <<>> THEN value
    ELSE IF Truthy(value) /\ TypeofObject(value) /\ In(Head(keys), value)
         THEN get(value.m[Head(keys)], Tail(keys), defaultValue)
         ELSE defaultValue

\* has(key), lines 95-97.
has(root, keys) == get(root, keys, Undefined) # Undefined

\* The loop of set(key, value), lines 79-93, from current on.  The result
\* is current as the call leaves it, and whether the call threw: `k in
\* current` and `current[k] = value` throw a TypeError when current is null.
RECURSIVE set(_, _, _)
set(current, keys, value) ==
    IF current.t # "object" THEN [threw |-> TRUE, value |-> current]
    ELSE IF Len(keys) = 1
    THEN [threw |-> FALSE, value |-> Obj(With(current.m, Head(keys), value))]
    ELSE LET k == Head(keys)
             child == IF ~In(k, current) \/ ~TypeofObject(current.m[k])
                      THEN Obj(<<>>) ELSE current.m[k]
             below == set(child, Tail(keys), value)
         IN [threw |-> below.threw, value |-> Obj(With(current.m, k, below.value))]

\* The loop of delete(key), lines 99-114, from current on: what the call
\* returns, whether it threw, and current as the call leaves it.
RECURSIVE delete(_, _)
delete(current, keys) ==
    IF current.t # "object" THEN [threw |-> TRUE, ret |-> FALSE, value |-> current]
    ELSE IF Len(keys) = 1
    THEN [threw |-> FALSE, ret |-> TRUE, value |-> Obj(Without(current.m, Head(keys)))]
    ELSE LET k == Head(keys)
         IN IF ~In(k, current) \/ ~TypeofObject(current.m[k])
            THEN [threw |-> FALSE, ret |-> FALSE, value |-> current]
            ELSE LET below == delete(current.m[k], Tail(keys))
                 IN [threw |-> below.threw, ret |-> below.ret,
                     value |-> Obj(With(current.m, k, below.value))]

\* The segments of the keys and the keys the store is called with.
Segments == {"viewonce", "autoForward"}
Keys == {<<a>> : a \in Segments} \cup {<<a, b>> : a, b \in Segments}

\* The values set is given and the defaults get is given.
StoredValues == {Scalar("on"), Scalar("off"), Null}
Defaults == {Undefined, Scalar("on"), Scalar("off")}

\* What loadConfig returns, as far as the keys above reach into it
\* (lines 45-48: viewonce.autoForward).
DefaultSettings == Obj([viewonce |-> Obj([autoForward |-> Scalar("on")])])

\* No call of the store has been made.
NoAnswer == [op |-> "none", key |-> <<>>, arg |-> Undefined, ret |-> Undefined,
             threw |-> FALSE]

\* config.set(key, value) is called.
ConfigSet(key, value) ==
    LET out == set(settings, key, value)
    IN /\ settings' = out.value
       /\ answer' = [op |-> "set", key |-> key, arg |-> value, ret |-> Undefined,
                     threw |-> out.threw]
       /\ UNCHANGED <<now, config, stats, tempDir, osTmp, sent, downloads, calls, pc, run,
                      probe, reports, dirExists, sched, sweep>>

\* config.get(key, defaultValue) is called.
ConfigGet(key, defaultValue) ==
    /\ answer' = [op |-> "get", key |-> key, arg |-> defaultValue,
                  ret |-> get(settings, key, defaultValue), threw |-> FALSE]
    /\ UNCHANGED <<now, config, stats, tempDir, osTmp, sent, downloads, calls, pc, run,
                   probe, reports, dirExists, sched, sweep, settings>>

\* config.has(key) is called.
ConfigHas(key) ==
    /\ answer' = [op |-> "has", key |-> key, arg |-> Undefined,
                  ret |-> Scalar(has(settings, key)), threw |-> FALSE]
    /\ UNCHANGED <<now, config, stats, tempDir, osTmp, sent, downloads, calls, pc, run,
                   probe, reports, dirExists, sched, sweep, settings>>

\* config.delete(key) is called.
ConfigDelete(key) ==
    LET out == delete(settings, key)
    IN /\ settings' = out.value
       /\ answer' = [op |-> "delete", key |-> key, arg |-> Undefined,
                     ret |-> Scalar(out.ret), threw |-> out.threw]
       /\ UNCHANGED <<now, config, stats, tempDir, osTmp, sent, downloads, calls, pc, run,
                      probe, reports, dirExists, sched, sweep>>

\* ------------------------------------------------------------------ the pipeline from its start

Init ==
    /\ now = 0
    /\ config \in [ConfigKeys -> BOOLEAN]
    /\ stats = [processed |-> 0, forwarded |-> 0, saved |-> 0, errors |-> 0]
    /\ tempDir = {}
    /\ osTmp = {}
    /\ sent = {}
    /\ downloads = {}
    /\ calls = 0
    /\ pc = [s \in Slots |-> "idle"]
    /\ run = [s \in Slots |-> IdleRun]
    /\ probe = NoProbe
    /\ reports = {}
    /\ dirExists = TRUE
    /\ sched = Running
    /\ sweep = NoSweep
    /\ settings = DefaultSettings
    /\ answer = NoAnswer

Next ==
    \/ \E slot \in Slots, msg \in Envelopes, isOwner \in BOOLEAN :
            DetectViewOnce(slot, msg, isOwner)
    \/ \E slot \in Slots, msg \in Envelopes : ProcessViewOnce(slot, msg)
    \/ \E slot \in Slots, outcome \in {"ok", "empty", "throw"}, fs \in FsOutcomes :
            DownloadDone(slot, outcome, fs)
    \/ \E slot \in Slots, o \in ExecOutcomes, fs \in FsOutcomes : ExecDone(slot, o, fs)
    \/ \E slot \in Slots, ok \in BOOLEAN : SendDone(slot, ok)
    \/ \E slot \in Slots : Reap(slot)
    \/ \E key \in ConfigKeys, value \in BOOLEAN : UpdateConfig(key, value)
    \/ \E on \in BOOLEAN : HandleViewOnceToggle(on)

Spec == Init /\ [][Next]_vars

\* ------------------------------------------------------------------ the manual reveal

\* What the command 'rvo' is given to quote.
Quoted ==
    { None,
      Some(Env("none", "plain", "absent", "absent", "image/jpeg")),
      Some(Env("none", "viewOnce", "absent", "absent", "image/jpeg")) }

NextRvo ==
    \/ \E slot \in Slots, quoted \in Quoted, isOwner \in BOOLEAN :
            HandleRvoCommand(slot, quoted, isOwner)
    \/ \E slot \in Slots, ok \in BOOLEAN : ReportDone(slot, ok)
    \/ \E slot \in Slots, outcome \in {"ok", "empty", "throw"}, fs \in FsOutcomes :
            DownloadDone(slot, outcome, fs)
    \/ \E slot \in Slots, ok \in BOOLEAN : SendDone(slot, ok)
    \/ \E slot \in Slots : Reap(slot)
    \/ \E key \in ConfigKeys, value \in BOOLEAN : UpdateConfig(key, value)

SpecRvo == Init /\ [][NextRvo]_vars

\* ------------------------------------------------------------------ the temp directory sweep

\* 60 * 60 * 1000, the milliseconds of the hour of handleCleanCommand.
HourMs == 60 * 60 * 1000

\* file.startsWith('viewonce_')
Prefixed(path) == path[1] = "viewonce_"

\* The listing readdirSync returns, as far as the sweep looks at it.
Listed == IF dirExists THEN {f.path : f \in {g \in tempDir : Prefixed(g.path)}} ELSE {}

\* cleanTempDirectory looking at files of any name.
cleanTempDirectoryAnyName(dir, maxAge, gone, failed) ==
    IF ~dirExists THEN [dir |-> dir, cleaned |-> 0, error |-> FALSE, pending |-> {}]
    ELSE LET present == {f \in dir : f.path \notin gone}
             removed == {f \in present : f.path \notin failed /\ now - f.mtime > maxAge}
         IN [dir |-> present \ removed, cleaned |-> Cardinality(removed), error |-> FALSE, pending |-> {}]

\* cleanTempDirectory without the try around one file: the first exception
\* ends the loop in the outer catch.
cleanTempDirectoryOneTry(dir, maxAge, gone, failed) ==
    IF ~dirExists THEN [dir |-> dir, cleaned |-> 0, error |-> FALSE, pending |-> {}]
    ELSE LET present == {f \in dir : f.path \notin gone}
             removed == {f \in present : /\ Prefixed(f.path)
                                          /\ now - f.mtime > maxAge}
         IN IF gone \cup failed = {}
            THEN [dir |-> present \ removed, cleaned |-> Cardinality(removed),
                  error |-> FALSE, pending |-> {}]
            ELSE [dir |-> present, cleaned |-> 0, error |-> TRUE, pending |-> {}]

\* cleanTempDirectory returning after readdirSync, the files left to a loop
\* that runs in later turns.
cleanTempDirectoryDeferred(dir, maxAge, gone, failed) ==
    [dir |-> dir, cleaned |-> 0, error |-> FALSE,
     pending |-> {f.path : f \in {g \in dir : dirExists /\ Prefixed(g.path)}}]

\* cleanTempDirectory(maxAge), lines 505-536.  gone: the listed files another
\* process removed before their statSync; failed: the listed files whose
\* statSync or unlinkSync throws.  error: the outer catch was reached.
\* pending: the listed files not yet looked at when the call returns; the
\* function is synchronous (existsSync, readdirSync, forEach, statSync,
\* unlinkSync), so there are none.
cleanTempDirectory(dir, maxAge, gone, failed) ==
    IF ~dirExists THEN [dir |-> dir, cleaned |-> 0, error |-> FALSE, pending |-> {}]
    ELSE LET present == {f \in dir : f.path \notin gone}
             removed == {f \in present : /\ Prefixed(f.path)
                                          /\ f.path \notin failed
                                          /\ now - f.mtime > maxAge}
         IN [dir |-> present \ removed, cleaned |-> Cardinality(removed), error |-> FALSE, pending |-> {}]

\* One call of cleanTempDirectory.
Sweep(by, maxAge, gone, failed) ==
    LET out == cleanTempDirectory(tempDir, maxAge, gone, failed)
    IN /\ gone \subseteq Listed
       /\ failed \subseteq Listed
       /\ gone \cap failed = {}
       /\ tempDir' = out.dir
       /\ sweep' = [flip |-> ~sweep.flip, by |-> by, maxAge |-> maxAge, gone |-> gone,
                    failed |-> failed, cleaned |-> out.cleaned, error |-> out.error,
                    pending |-> out.pending]

\* Date.now() moves on.
Tick ==
    /\ now < MaxTime
    /\ now' = now + 1
    /\ UNCHANGED <<store, config, stats, tempDir, osTmp, sent, downloads, calls, pc, run, probe,
                   reports, cleanup>>

\* init() of viewonce.js, lines 79-97: the directory is made, the interval set.
ModuleInit ==
    /\ ~sched.init
    /\ dirExists' = TRUE
    /\ sched' = [sched EXCEPT !.init = TRUE, !.timer = TRUE, !.variant = "module"]
    /\ UNCHANGED <<store, now, config, stats, tempDir, osTmp, sent, downloads, calls, pc, run,
                   probe, reports, sweep>>

\* init() of viewonce-module.js, lines 63-73: a sweep, then the interval set.
WrapperInit(gone, failed) ==
    /\ ~sched.init
    /\ Sweep("startup", config.maxTempAge, gone, failed)
    /\ sched' = [sched EXCEPT !.init = TRUE, !.timer = TRUE, !.variant = "wrapper"]
    /\ UNCHANGED <<store, now, config, stats, osTmp, sent, downloads, calls, pc, run, probe,
                   reports, dirExists>>

\* The callback of the interval passing six hours whatever the module ran.
TimerMaxAgeSixHours == 6 * HourMs

\* The threshold the callback of the interval passes: the default parameter
\* this.config.maxTempAge (viewonce.js 88-90), six hours (viewonce-module.js 70-72).
TimerMaxAge == IF sched.variant = "wrapper" THEN 6 * HourMs ELSE config.maxTempAge

\* The interval expires and its callback runs (the length of the interval
\* is left open: the clock counts milliseconds, the interval hours).
TimerFire(gone, failed) ==
    /\ sched.timer
    /\ Sweep("timer", TimerMaxAge, gone, failed)
    /\ UNCHANGED <<store, now, config, stats, osTmp, sent, downloads, calls, pc, run, probe,
                   reports, dirExists, sched>>

\* destroy(), viewonce.js 102-104 and viewonce-module.js 195-197.
Destroy ==
    /\ sched.init
    /\ ~sched.destroyed
    /\ sched' = [sched EXCEPT !.destroyed = TRUE]
    /\ UNCHANGED <<store, now, config, stats, tempDir, osTmp, sent, downloads, calls, pc, run,
                   probe, reports, dirExists, sweep>>

\* handleCleanCommand, viewonce-module.js 176-193: '.clean <hours>'.
HandleCleanCommand(hours, gone, failed) ==
    /\ Sweep("command", hours * HourMs, gone, failed)
    /\ reports' = reports \cup {[id |-> 0, to |-> "c@g.us", kind |-> "cleaned",
                                  error |-> ""]}
    /\ UNCHANGED <<store, now, config, stats, osTmp, sent, downloads, calls, pc, run, probe,
                   dirExists, sched>>

\* Another process removes the temp directory and what is in it.
RemoveTempDir ==
    /\ sched.init
    /\ dirExists
    /\ dirExists' = FALSE
    /\ tempDir' = {}
    /\ UNCHANGED <<store, now, config, stats, osTmp, sent, downloads, calls, pc, run, probe,
                   reports, sched, sweep>>

\* The thresholds this.config.maxTempAge is set to.
MaxAges == {0, 1}

\* What a previous run of the process left in the temp directory.
StaleFiles ==
    { [path |-> <<"viewonce_", 0, "image", 0, "jpg">>, bytes |-> <<"raw", 0>>, mtime |-> 0],
      [path |-> <<"notes.txt">>, bytes |-> <<"raw", 0>>, mtime |-> 0] }

InitEvict ==
    /\ now = 1
    /\ \E maxTempAge \in MaxAges :
            config = [autoForward |-> FALSE, saveToTemp |-> TRUE, skipOwner |-> FALSE,
                      maxTempAge |-> maxTempAge]
    /\ stats = [processed |-> 0, forwarded |-> 0, saved |-> 0, errors |-> 0]
    /\ dirExists \in BOOLEAN
    /\ tempDir \in (IF dirExists THEN SUBSET StaleFiles ELSE {{}})
    /\ osTmp = {}
    /\ sent = {}
    /\ downloads = {}
    /\ calls = 0
    /\ pc = [s \in Slots |-> "idle"]
    /\ run = [s \in Slots |-> IdleRun]
    /\ probe = NoProbe
    /\ reports = {}
    /\ sched = NotStarted
    /\ sweep = NoSweep
    /\ settings = DefaultSettings
    /\ answer = NoAnswer

NextEvict ==
    \/ Tick
    \/ ModuleInit
    \/ \E gone \in SUBSET Listed : \E failed \in SUBSET (Listed \ gone) :
            WrapperInit(gone, failed)
    \/ \E gone \in SUBSET Listed : \E failed \in SUBSET (Listed \ gone) :
            TimerFire(gone, failed)
    \/ Destroy
    \/ RemoveTempDir
    \/ \E hours \in {0, 1}, gone \in SUBSET Listed : \E failed \in SUBSET (Listed \ gone) :
            HandleCleanCommand(hours, gone, failed)
    \/ \E slot \in Slots :
            DetectViewOnce(slot, Env("none", "viewOnce", "absent", "absent", "image/jpeg"),
                           FALSE)
    \/ \E slot \in Slots, outcome \in {"ok", "throw"}, write \in BOOLEAN :
            DownloadDone(slot, outcome,
                         [create1 |-> TRUE, write |-> write, create2 |-> TRUE])
    \/ \E slot \in Slots : Reap(slot)

SpecEvict == InitEvict /\ [][NextEvict]_vars

\* init() of viewonce.js runs, the clock moves on, the interval fires and
\* meets files it cannot remove, and runs save artifacts.
NextLive ==
    \/ Tick
    \/ ModuleInit
    \/ \E failed \in SUBSET Listed : TimerFire({}, failed)
    \/ \E slot \in Slots :
            DetectViewOnce(slot, Env("none", "viewOnce", "absent", "absent", "image/jpeg"),
                           FALSE)
    \/ \E slot \in Slots, outcome \in {"ok", "throw"}, write \in BOOLEAN :
            DownloadDone(slot, outcome,
                         [create1 |-> TRUE, write |-> write, create2 |-> TRUE])
    \/ \E slot \in Slots : Reap(slot)

\* The process keeps running: time passes, init() runs, and the interval
\* keeps firing, again and again meeting no file it cannot remove.
SpecLive ==
    /\ InitEvict
    /\ [][NextLive]_vars
    /\ WF_vars(Tick)
    /\ WF_vars(ModuleInit)
    /\ WF_vars(TimerFire({}, {}))

\* ------------------------------------------------------------------ the kinds of chat

\* A view-once image received in a group and in a one-to-one chat.
ChatEnvelopes ==
    { Env("none", "viewOnce", "absent", "absent", "image/jpeg"),
      [Env("none", "viewOnce", "absent", "absent", "image/jpeg") EXCEPT
            !.chat = "c@s.whatsapp.net"] }

InitChat ==
    /\ Init
    /\ config = [autoForward |-> TRUE, saveToTemp |-> FALSE, skipOwner |-> FALSE]

\* 'viewonce groups on|off' and 'viewonce private on|off' reach updateConfig.
NextChat ==
    \/ \E slot \in Slots, msg \in ChatEnvelopes : DetectViewOnce(slot, msg, FALSE)
    \/ \E slot \in Slots, outcome \in {"ok", "empty", "throw"}, fs \in FsOutcomes :
            DownloadDone(slot, outcome, fs)
    \/ \E slot \in Slots, ok \in BOOLEAN : SendDone(slot, ok)
    \/ \E slot \in Slots : Reap(slot)
    \/ \E key \in ChatKeys \cup {"autoForward"}, value \in BOOLEAN : UpdateConfig(key, value)

SpecChat == InitChat /\ [][NextChat]_vars

\* ------------------------------------------------------------------ the transcoder

\* A view-once audio message of every mimetype (or of none).
AudioEnvelopes == {Env("none", "absent", "absent", "viewOnce", m) : m \in Mimes}

InitTranscode ==
    /\ Init
    /\ ~config.saveToTemp
    /\ ~config.skipOwner

NextTranscode ==
    \/ \E slot \in Slots, msg \in AudioEnvelopes : DetectViewOnce(slot, msg, FALSE)
    \/ \E slot \in Slots, outcome \in {"ok", "empty", "throw"}, fs \in FsOutcomes :
            DownloadDone(slot, outcome, fs)
    \/ \E slot \in Slots, o \in ExecOutcomes, fs \in FsOutcomes : ExecDone(slot, o, fs)
    \/ \E slot \in Slots, ok \in BOOLEAN : SendDone(slot, ok)
    \/ \E slot \in Slots : Reap(slot)

SpecTranscode == InitTranscode /\ [][NextTranscode]_vars

\* ------------------------------------------------------------------ the detector alone

\* isViewOnceMessage(msg), lines 111-120, applied to the input of the probe.
ProbeIsViewOnce ==
    /\ probe.stage = "input"
    /\ probe' = [probe EXCEPT !.stage = "detected",
                              !.isViewOnce = isViewOnceMessage(probe.msg)]
    /\ UNCHANGED <<store, now, config, stats, tempDir, osTmp, sent, downloads, calls, pc, run,
                   reports, cleanup>>

\* getViewOnceType(msg), lines 127-136, applied to the input of the probe.
ProbeGetType ==
    /\ probe.stage = "detected"
    /\ probe' = [probe EXCEPT !.stage = "classified", !.type = getViewOnceType(probe.msg)]
    /\ UNCHANGED <<store, now, config, stats, tempDir, osTmp, sent, downloads, calls, pc, run,
                   reports, cleanup>>

InitDetect ==
    /\ now = 0
    /\ config = [k \in ConfigKeys |-> TRUE]
    /\ stats = [processed |-> 0, forwarded |-> 0, saved |-> 0, errors |-> 0]
    /\ tempDir = {}
    /\ osTmp = {}
    /\ sent = {}
    /\ downloads = {}
    /\ calls = 0
    /\ pc = [s \in Slots |-> "idle"]
    /\ run = [s \in Slots |-> IdleRun]
    /\ \E msg \in AllEnvelopes : probe = [NoProbe EXCEPT !.stage = "input", !.msg = msg]
    /\ reports = {}
    /\ dirExists = TRUE
    /\ sched = Running
    /\ sweep = NoSweep
    /\ settings = DefaultSettings
    /\ answer = NoAnswer

NextDetect == ProbeIsViewOnce \/ ProbeGetType

SpecDetect == InitDetect /\ [][NextDetect]_vars

\* ------------------------------------------------------------------ runs in flight together

\* Two invocations of the hook whose runs are in flight at the same time.
Pair == {"r1", "r2"}

\* A view-once image received in a group and in a one-to-one chat, and a
\* view-once voice note.
PairEnvelopes ==
    ChatEnvelopes \cup {Env("none", "absent", "absent", "viewOnce", "audio/ogg")}

\* The hook is invoked while another run may be waiting.
Dispatch(slot, msg) ==
    /\ pc[slot] = "idle"
    /\ calls < Cardinality(Pair)
    /\ calls' = calls + 1
    /\ Commit(slot, detectViewOnce(Started(slot, msg, "hook", FALSE)))
    /\ UNCHANGED <<store, now, config, probe, cleanup>>

\* The file system lets every write through.
WritesSucceed == [create1 |-> TRUE, write |-> TRUE, create2 |-> TRUE]

\* The codec process fails or not; the unlinks and the read succeed.
PairExecOutcomes == {o \in ExecOutcomes : o.rmIn /\ o.read /\ o.rmOut}

InitPair ==
    /\ now = 0
    /\ config = [autoForward |-> TRUE, saveToTemp |-> TRUE, skipOwner |-> FALSE]
    /\ stats = [processed |-> 0, forwarded |-> 0, saved |-> 0, errors |-> 0]
    /\ tempDir = {}
    /\ osTmp = {}
    /\ sent = {}
    /\ downloads = {}
    /\ calls = 0
    /\ pc = [s \in Pair |-> "idle"]
    /\ run = [s \in Pair |-> IdleRun]
    /\ probe = NoProbe
    /\ reports = {}
    /\ dirExists = TRUE
    /\ sched = Running
    /\ sweep = NoSweep
    /\ settings = DefaultSettings
    /\ answer = NoAnswer

NextPair ==
    \/ \E slot \in Pair, msg \in PairEnvelopes : Dispatch(slot, msg)
    \/ \E slot \in Pair, outcome \in {"ok", "throw"} :
            DownloadDone(slot, outcome, WritesSucceed)
    \/ \E slot \in Pair, o \in PairExecOutcomes : ExecDone(slot, o, WritesSucceed)
    \/ \E slot \in Pair, ok \in BOOLEAN : SendDone(slot, ok)

SpecPair == InitPair /\ [][NextPair]_vars

\* ------------------------------------------------------------------ the configuration store alone

InitStore ==
    /\ Init
    /\ config = [k \in ConfigKeys |-> TRUE]

NextStore ==
    \/ \E key \in Keys, value \in StoredValues : ConfigSet(key, value)
    \/ \E key \in Keys, defaultValue \in Defaults : ConfigGet(key, defaultValue)
    \/ \E key \in Keys : ConfigHas(key)
    \/ \E key \in Keys : ConfigDelete(key)

SpecStore == InitStore /\ [][NextStore]_vars

\* ------------------------------------------------------------------ the counters and the results

\* Two runs from the start of the process, the flags set as the
\* constructor finds them.
InitTally == InitPair

\* The artifact write succeeds or fails; the codec input is written.
TallyFsOutcomes == {fs \in FsOutcomes : fs.create1 /\ fs.create2}

\* A view-once image and a view-once voice note.
TallyEnvelopes ==
    { Env("none", "viewOnce", "absent", "absent", "image/jpeg"),
      Env("none", "absent", "absent", "viewOnce", "audio/ogg") }

NextTally ==
    \/ \E slot \in Pair, msg \in TallyEnvelopes : Dispatch(slot, msg)
    \/ \E slot \in Pair, outcome \in {"ok", "throw"}, fs \in TallyFsOutcomes :
            DownloadDone(slot, outcome, fs)
    \/ \E slot \in Pair, o \in PairExecOutcomes, fs \in TallyFsOutcomes :
            ExecDone(slot, o, fs)
    \/ \E slot \in Pair, ok \in BOOLEAN : SendDone(slot, ok)
    \/ \E key \in {"autoForward", "saveToTemp"}, value \in BOOLEAN : UpdateConfig(key, value)

SpecTally == InitTally /\ [][NextTally]_vars

\* ------------------------------------------------------------------ claims

Has(slot, e) == \E i \in DOMAIN run[slot].ev : run[slot].ev[i] = e
Count(slot, e) == Cardinality({i \in DOMAIN run[slot].ev : run[slot].ev[i] = e})
Returned(slot) == pc[slot] = "done"
Result(slot) == run[slot].result[1]
HasResult(slot) == Returned(slot) /\ run[slot].result # None

\* The stage of processViewOnce an event belongs to.
Stage(e) ==
    CASE e = "detect" -> 1
      [] e \in {"download_call", "download_ok", "download_fail"} -> 2
      [] e \in {"exec_process", "tx_ok", "tx_fail"} -> 3
      [] e \in {"write_ok", "write_fail", "inc_saved"} -> 4
      [] e \in {"exec_forward", "send_call", "send_ok", "send_fail", "inc_forwarded",
                "inc_errors"} -> 5
      [] e = "inc_processed" -> 6
      [] OTHER -> 7

\* What a run does after its download: file writes, sends, counter increments.
LaterEffects ==
    {"exec_process", "exec_forward", "write_ok", "write_fail", "inc_saved", "send_call",
     "send_ok", "send_fail", "inc_forwarded", "inc_errors", "inc_processed"}

\* A step of the run of slot that leaves it without a successful download:
\* its start, and its end at detection, extraction or download.
StepBeforeDownloaded(slot) ==
    /\ run'[slot] # run[slot]
    /\ pc[slot] \in {"idle", "download"}
    /\ \A i \in DOMAIN run'[slot].ev : run'[slot].ev[i] # "download_ok"

\* C1: within one run the stages happen in the order detect, download,
\* transcode, persist, forward, record; no temp file write, send or counter
\* increment comes before the download of that run has succeeded; and a run
\* that ends at detection, extraction or download leaves the temp directory,
\* the sends and the counters alone.
StagesInOrder ==
    /\ [](\A slot \in Slots :
            LET ev == run[slot].ev
            IN /\ \A i, j \in DOMAIN ev :
                    (i < j /\ ev[i] # "uncaught" /\ ev[j] # "uncaught")
                        => Stage(ev[i]) <= Stage(ev[j])
               /\ \A j \in DOMAIN ev :
                    ev[j] \in LaterEffects => \E i \in 1..(j - 1) : ev[i] = "download_ok")
    /\ [][\A slot \in Slots :
            StepBeforeDownloaded(slot) => UNCHANGED <<stats, tempDir, osTmp, sent>>]_vars

\* C1 witness: a run that downloaded, saved, sent and recorded.
StagesInOrderWitness ==
    \E slot \in Slots :
        /\ Returned(slot)
        /\ Has(slot, "download_ok") /\ Has(slot, "tx_ok") /\ Has(slot, "write_ok")
        /\ Has(slot, "send_ok") /\ Has(slot, "inc_processed")

\* C2: every invocation completes by returning a result or nothing; no
\* failure of a stage leaves the run with an exception thrown out of it and
\* its caller waiting for ever.
NeverThrowsOrHangs == \A slot \in Slots : pc[slot] # "stuck"

\* C3: a run whose download failed returns a populated result with
\* success = false and the error message, and counts one error.
DownloadFailureReported ==
    \A slot \in Slots :
        (Returned(slot) /\ Has(slot, "download_fail"))
            => /\ run[slot].result # None
               /\ ~Result(slot).success
               /\ Result(slot).error # ""
               /\ Count(slot, "inc_errors") = 1

\* The calls of sendMessage made by the run of slot.
SentBy(slot) == {m \in sent : m.id = run[slot].id}

\* C4: after a failed transcode the run goes on with the downloaded bytes:
\* it persists and forwards exactly those bytes, and with autoForward on and
\* the send acknowledged it returns success = true with forwarded = true.
TranscodeFailureKeepsOriginal ==
    \A slot \in Slots :
        Has(slot, "tx_fail")
            => /\ run[slot].mediaData.buffer = run[slot].original
               /\ run[slot].savedPath # None
                    => \A f \in tempDir :
                            f.path = run[slot].savedPath[1] => f.bytes = run[slot].original
               /\ \A m \in SentBy(slot) : m.bytes = run[slot].original
               /\ (Returned(slot) /\ Has(slot, "send_ok"))
                    => /\ HasResult(slot)
                       /\ Result(slot).success
                       /\ Result(slot).forwarded

\* A step in which the run of slot meets event e.
Meets(slot, e) ==
    /\ \A i \in DOMAIN run[slot].ev : run[slot].ev[i] # e
    /\ pc[slot] # "idle"
    /\ \E i \in DOMAIN run'[slot].ev : run'[slot].ev[i] = e

\* A step in which the run of slot returns.
Returns(slot) == pc[slot] \notin {"idle", "done"} /\ pc'[slot] = "done"

\* C5: a failed write of the artifact does not end the run: savedPath is
\* none, saved is not incremented, the forward stage still runs when
\* autoForward is on, processed is incremented and the run returns
\* success = true.
PersistFailureNonFatal ==
    /\ [](\A slot \in Slots :
            Has(slot, "write_fail")
                => /\ run[slot].savedPath = None
                   /\ ~Has(slot, "inc_saved")
                   /\ run[slot].cfgFwd # None
                   /\ run[slot].cfgFwd = Some(TRUE)
                        => (Has(slot, "send_call") \/ Has(slot, "exec_forward"))
                   /\ pc[slot] \in {"exec", "send", "done", "stuck"}
                   /\ pc[slot] = "stuck" => run[slot].tx.stage = "forward"
                   /\ Returned(slot)
                        => /\ run[slot].result # None
                           /\ Result(slot).success
                           /\ Result(slot).savedPath = None
                           /\ Count(slot, "inc_processed") = 1)
    /\ [][\A slot \in Slots :
            /\ Meets(slot, "write_fail") => stats'.saved = stats.saved
            /\ (Returns(slot) /\ \E i \in DOMAIN run'[slot].ev : run'[slot].ev[i] = "write_fail")
                    => stats'.processed = stats.processed + 1]_vars

\* C5 witness: a run whose write failed, which then sent and returned.
PersistFailureWitness ==
    \E slot \in Slots :
        /\ Returned(slot) /\ Has(slot, "write_fail") /\ Has(slot, "send_ok")
        /\ Result(slot).success /\ Result(slot).forwarded

\* C6: when sendMessage throws, nothing is thrown to the caller: the errors
\* counter goes up by one, forwarded stays, and the run records and returns
\* success = true with forwarded = false.
SendFailureContained ==
    /\ [](\A slot \in Slots :
            Has(slot, "send_fail")
                => /\ Returned(slot)
                   /\ run[slot].result # None
                   /\ Result(slot).success
                   /\ ~Result(slot).forwarded
                   /\ Count(slot, "inc_errors") = 1
                   /\ ~Has(slot, "inc_forwarded")
                   /\ Count(slot, "inc_processed") = 1)
    /\ [][\A slot \in Slots :
            Meets(slot, "send_fail")
                => /\ stats'.errors = stats.errors + 1
                   /\ stats'.forwarded = stats.forwarded
                   /\ stats'.processed = stats.processed + 1
                   /\ pc'[slot] = "done"]_vars

\* C6 witness: a run whose send threw.
SendFailureWitness ==
    \E slot \in Slots : Returned(slot) /\ Has(slot, "send_fail") /\ stats.errors = 1

\* C7: forwarded = true in a result only if autoForward was on when the
\* forward stage read it and a send of the run was acknowledged; with
\* autoForward off the run calls sendMessage not at all and reports
\* forwarded = false.
ForwardedImpliesSent ==
    \A slot \in Slots :
        /\ HasResult(slot) /\ Result(slot).forwarded
            => /\ run[slot].cfgFwd = Some(TRUE)
               /\ Has(slot, "send_ok")
               /\ SentBy(slot) # {}
        /\ run[slot].cfgFwd = Some(FALSE)
            => /\ ~Has(slot, "send_call")
               /\ SentBy(slot) = {}
               /\ ~Has(slot, "inc_forwarded")
               /\ HasResult(slot) => ~Result(slot).forwarded

\* C7 witness: a returned run with forwarded = true.
ForwardedWitness ==
    \E slot \in Slots :
        /\ HasResult(slot)
        /\ Result(slot).forwarded
        /\ run[slot].cfgFwd = Some(TRUE)
        /\ SentBy(slot) # {}

\* C8: savedPath is set in a result only if saveToTemp was on when the
\* persist stage read it and the write succeeded; with saveToTemp off the
\* run writes no file to the temp directory, leaves saved alone and reports
\* savedPath none.
SavedImpliesEnabled ==
    /\ [](\A slot \in Slots :
            /\ HasResult(slot) /\ Result(slot).savedPath # None
                => /\ run[slot].cfgSave = Some(TRUE)
                   /\ Has(slot, "write_ok")
                   /\ Exists(tempDir, Result(slot).savedPath[1])
            /\ run[slot].cfgSave = Some(FALSE)
                => /\ ~Has(slot, "write_ok") /\ ~Has(slot, "write_fail")
                   /\ ~Has(slot, "inc_saved")
                   /\ run[slot].savedPath = None
                   /\ HasResult(slot) => Result(slot).savedPath = None)
    /\ [][\A slot \in Slots :
            (run[slot].cfgSave = None /\ run'[slot].cfgSave = Some(FALSE))
                => /\ tempDir' = tempDir
                   /\ stats'.saved = stats.saved]_vars

\* C8 witness: a returned run whose result carries a savedPath.
SavedWitness ==
    \E slot \in Slots :
        /\ HasResult(slot)
        /\ Result(slot).savedPath # None
        /\ run[slot].cfgSave = Some(TRUE)
        /\ stats.saved = 1

\* The view-once variants: a wrapper node of one of the three wrapper kinds,
\* or a true viewOnce flag on an image, video or audio node of the message.
MatchesVariant(msg) ==
    /\ msg.hasMessage
    /\ \/ msg.wrapper # "none"
       \/ \E kind \in {"image", "video", "audio"} : msg[kind] = "viewOnce"

\* The kind of the inner media of a view-once message: the first of image,
\* video, audio that the matching variant holds.
InnerKind(msg) ==
    LET holds(kind) == IF msg.wrapper = "none" THEN msg[kind] = "viewOnce"
                       ELSE msg[kind] # "absent"
    IN IF ~MatchesVariant(msg) THEN "null"
       ELSE IF holds("image") THEN "image"
       ELSE IF holds("video") THEN "video"
       ELSE IF holds("audio") THEN "audio"
       ELSE "null"

\* C9: isViewOnceMessage is true exactly for the messages that match a
\* view-once variant (wrapper, versioned wrapper, extension wrapper, direct
\* flag), and the type extracted is the kind of the inner media, the first of
\* image, video, audio, and none for any other message.
DetectsEveryVariant ==
    probe.stage = "classified"
        => /\ probe.isViewOnce <=> MatchesVariant(probe.msg)
           /\ probe.type = InnerKind(probe.msg)

\* A step in which a run is started on a message matching no variant.
OrdinaryCall(slot) ==
    /\ pc[slot] = "idle"
    /\ pc'[slot] # "idle"
    /\ ~MatchesVariant(run'[slot].msg)

\* C10: for a message that matches no view-once variant isViewOnceMessage is
\* false, and the hook and processViewOnce return nothing and change neither
\* the counters, the configuration, the temp directory nor the downloads and
\* sends made.
OrdinaryMessageNoOp ==
    [][\A slot \in Slots :
        OrdinaryCall(slot)
            => /\ ~isViewOnceMessage(run'[slot].msg)
               /\ pc'[slot] = "done"
               /\ run'[slot].result = None
               /\ run'[slot].ev = <<"return">>
               /\ UNCHANGED <<stats, config, tempDir, osTmp, sent, downloads>>]_vars

\* C10 witness: a call on a message with a media node and no view-once
\* variant has returned, with every counter still 0.
OrdinaryMessageWitness ==
    \E slot \in Slots :
        /\ Returned(slot)
        /\ run[slot].id = calls
        /\ run[slot].msg.image = "plain"
        /\ ~MatchesVariant(run[slot].msg)
        /\ run[slot].result = None
        /\ downloads = {}

\* A step in which the message hook is invoked on slot.
HookCall(slot) ==
    /\ pc[slot] = "idle"
    /\ pc'[slot] # "idle"
    /\ run'[slot].entry = "hook"

OutcomeReports(slot) ==
    {m \in reports : m.id = run[slot].id /\ m.kind \in {"success", "failed"}}

\* C12: handleRvoCommand on a quoted view-once message runs processViewOnce
\* on it even for the owner with skipOwner on, and once that has returned it
\* reports the outcome to the invoking chat: a success report for a result
\* with success = true, otherwise a failure report that carries the error
\* message, the message of the failed download included.
RevealReportsOutcome ==
    \A slot \in Slots :
        (run[slot].entry = "rvo" /\ run[slot].rvo \in {"outcome", "reported"})
            => /\ Has(slot, "detect")
               /\ Has(slot, "download_call")
               /\ \E m \in OutcomeReports(slot) :
                    /\ m.to = run[slot].msg.chat
                    /\ (run[slot].result # None /\ Result(slot).success)
                            => m.kind = "success"
                    /\ ~(run[slot].result # None /\ Result(slot).success)
                            => /\ m.kind = "failed"
                               /\ run[slot].caught # "" => m.error = run[slot].caught

\* The conversation identifier of a group ends in @g.us.
IsGroupChat(chat) == chat \in {"c@g.us"}

\* The flag that applies to a chat.
ApplicableFlag(chat) == IF IsGroupChat(chat) THEN "enableInGroups" ELSE "enableInPrivate"

\* C13: the forward stage classifies the chat as group or one-to-one by the
\* suffix of its identifier and respects enableInGroups and enableInPrivate:
\* with the flag of the chat's kind off it calls sendMessage not at all,
\* reports forwarded = false and leaves the errors counter alone.
ForwardRespectsChatKind ==
    \A slot \in Slots :
        run[slot].cfgChat # None
            => LET flags == run[slot].cfgChat[1]
                   key == ApplicableFlag(run[slot].msg.chat)
               IN (key \in DOMAIN flags /\ ~flags[key])
                    => /\ ~Has(slot, "send_call")
                       /\ SentBy(slot) = {}
                       /\ ~Has(slot, "inc_errors")
                       /\ HasResult(slot) => ~Result(slot).forwarded

\* C14: whenever the transcode of an Ogg payload settles, by success, by a
\* failure of the codec process or by a failure to read the converted file,
\* neither its input file nor its output file is left in os.tmpdir().
TranscodeLeavesNoFile == \A slot \in Slots : run[slot].left = {}

\* The mimetype fields that contain "ogg".
ContainsOgg(mime) == mime \in {"audio/ogg", "audio/ogg; codecs=opus"}

\* C15: for a mimetype that does not contain "ogg" the transcode returns
\* exactly the bytes it was given, creates no file in os.tmpdir() and does
\* not start the codec process; only a mimetype containing "ogg" starts a
\* conversion.
NonOggIdentity ==
    /\ [](\A slot \in Slots :
            /\ (Has(slot, "download_ok") /\ ~ContainsOgg(run[slot].msg.mime))
                    => /\ ~Has(slot, "exec_process") /\ ~Has(slot, "exec_forward")
                       /\ Has(slot, "tx_ok") /\ ~Has(slot, "tx_fail")
                       /\ run[slot].mediaData.buffer = run[slot].original
                       /\ run[slot].tx.state = "resolved"
                       /\ run[slot].tx.value = run[slot].original
                       /\ run[slot].tx.inputPath = <<>>
                       /\ \A m \in SentBy(slot) : m.bytes = run[slot].original
                       /\ run[slot].left = {}
            /\ (Has(slot, "exec_process") \/ Has(slot, "exec_forward"))
                    => ContainsOgg(run[slot].msg.mime))
    /\ [][\A slot \in Slots :
            (run'[slot] # run[slot] /\ ~ContainsOgg(run'[slot].msg.mime))
                => osTmp' = osTmp]_vars

\* C15 witness: an audio/mpeg message went through both transcodes and was
\* sent with the bytes of the download, and os.tmpdir() holds no file.
NonOggIdentityWitness ==
    \E slot \in Slots :
        /\ Returned(slot)
        /\ run[slot].msg.mime = "audio/mpeg"
        /\ Has(slot, "tx_ok") /\ Has(slot, "send_ok")
        /\ \E m \in SentBy(slot) : m.bytes = RawBytes(run[slot].id)
        /\ osTmp = {}

\* A step in which cleanTempDirectory runs.
Sweeps == sweep'.flip # sweep.flip

\* The age of a file at the time of the step.
Age(f) == now - f.mtime

\* C16: a sweep with threshold maxAge removes a file only if its name
\* starts with viewonce_ and it is older than maxAge; every file without
\* the prefix and every file not older than the threshold stays as it is,
\* whatever the mix of files and however the saves of the runs interleave.
EvictOnlyOldPrefixed ==
    [][Sweeps
        => /\ tempDir' \subseteq tempDir
           /\ \A f \in tempDir :
                (~Prefixed(f.path) \/ Age(f) <= sweep'.maxAge)
                    => (f \in tempDir' \/ f.path \in sweep'.gone)
           /\ \A f \in tempDir :
                ~Prefixed(f.path) => f \in tempDir']_vars

\* C16 witness: a sweep with threshold 1 has removed a file, and the
\* directory still holds an older file without the prefix and the artifact
\* a run saved, which is not older than the threshold.
EvictOnlyOldPrefixedWitness ==
    /\ sweep.cleaned = 1
    /\ sweep.maxAge = 1
    /\ stats.saved = 1
    /\ \E f \in tempDir : ~Prefixed(f.path) /\ Age(f) > sweep.maxAge
    /\ \E f \in tempDir : Prefixed(f.path) /\ Age(f) <= sweep.maxAge

\* C17: a sweep with maxAge = 0 that meets no failure removes every file
\* whose name starts with viewonce_, a file of age 0 included; a file whose
\* age is below maxAge stays.
EvictZeroRemovesAll ==
    [][(Sweeps /\ dirExists /\ sweep'.gone = {} /\ sweep'.failed = {})
        => /\ sweep'.maxAge = 0 => \A f \in tempDir' : ~Prefixed(f.path)
           /\ \A f \in tempDir :
                (Prefixed(f.path) /\ sweep'.maxAge > Age(f)) => f \in tempDir']_vars

SchedulerSweeps ==
    [][/\ (~sched.init /\ sched'.init)
            => /\ Sweeps
               /\ sweep'.by = "startup"
               /\ sweep'.maxAge = config.maxTempAge
       /\ (Sweeps /\ sweep'.by = "timer") => sweep'.maxAge = config.maxTempAge]_vars

\* C20: once destroy has run no interval is registered and the scheduler
\* starts no further sweep.
TimerCancelled ==
    /\ [](sched.destroyed => ~sched.timer)
    /\ [][sched.destroyed => ~(Sweeps /\ sweep'.by = "timer")]_vars

Increments(e) == Count("r1", e) + Count("r2", e)

\* C22: however the turns of the runs in flight together interleave at
\* their downloads, transcodes and sends, no increment of processed,
\* forwarded, saved or errors is lost: each counter equals the number of
\* increments the runs have performed.
CountersLoseNothing ==
    /\ stats.processed = Increments("inc_processed")
    /\ stats.forwarded = Increments("inc_forwarded")
    /\ stats.saved = Increments("inc_saved")
    /\ stats.errors = Increments("inc_errors")

\* C22 witness: the run that started second has finished and counted
\* itself while the run that started first, its artifact saved and counted,
\* still waits for its send.
CountersLoseNothingWitness ==
    \E a, b \in Pair :
        /\ run[a].id < run[b].id
        /\ pc[a] = "send"
        /\ Returned(b)
        /\ stats.processed = 1
        /\ stats.saved = 2
        /\ stats.forwarded + stats.errors = 1

\* The run of slot has acted as with saveToTemp set / with autoForward set.
ActedSave(slot) == Has(slot, "write_ok") \/ Has(slot, "write_fail")
ActedForward(slot) == Has(slot, "send_call") \/ Has(slot, "exec_forward")

SaveMakesDirectory ==
    [][\A slot \in Slots :
            (/\ ~dirExists
             /\ run[slot].cfgSave = None
             /\ run'[slot].cfgSave = Some(TRUE))
                => dirExists']_vars

\* C25: two runs for different conversations never persist to the same
\* path, also when they save at the same timestamp with the same kind and
\* MIME type: their artifacts have different paths and each artifact keeps
\* the bytes its run wrote.
ArtifactNamesSalted ==
    \A a, b \in Pair :
        (/\ a # b
         /\ run[a].msg.chat # run[b].msg.chat
         /\ run[a].savedPath # None
         /\ run[b].savedPath # None)
            => /\ run[a].savedPath # run[b].savedPath
               /\ Content(tempDir, run[a].savedPath[1]) = run[a].mediaData.buffer

IsPrefix(p, q) == Len(p) <= Len(q) /\ SubSeq(q, 1, Len(p)) = p

\* The keys that are neither a prefix nor an extension of key.
Unrelated(key) == {p \in Keys : ~IsPrefix(p, key) /\ ~IsPrefix(key, p)}

\* A segment of key before its last is missing from the store or holds
\* something that is not a mapping.
BrokenPath(key) ==
    \E n \in 1..(Len(key) - 1) :
        get(settings, SubSeq(key, 1, n), Undefined).t # "object"

\* C27: the dotted-path operations of the store round-trip.  Right after
\* set(key, value), get(key, default) returns value for every default and
\* has(key) is true; right after delete(key), get(key, default) returns
\* default and has(key) is false; get on a path with a missing or
\* non-mapping segment returns the default; set and delete leave every key
\* that is neither a prefix nor an extension of their key as it was.
StoreRoundTrips ==
    /\ [](\A key \in Keys, d \in Defaults :
                BrokenPath(key) => get(settings, key, d) = d)
    /\ [][/\ answer'.op = "set"
               => /\ \A d \in Defaults : get(settings', answer'.key, d) = answer'.arg
                  /\ has(settings', answer'.key)
          /\ answer'.op = "delete"
               => /\ \A d \in Defaults : get(settings', answer'.key, d) = d
                  /\ ~has(settings', answer'.key)
          /\ answer'.op \in {"set", "delete"}
               => \A p \in Unrelated(answer'.key) :
                       get(settings', p, Undefined) = get(settings, p, Undefined)]_vars

\* C28: for an audio payload the bytes Forward sends are the payload bytes
\* of the run, those it persisted and returns: the codec is started at most
\* once in a run and Forward does not transcode again.
ForwardSendsPayload ==
    \A slot \in Slots :
        run[slot].mediaData.type = "audio"
            => /\ Count(slot, "exec_process") + Count(slot, "exec_forward") <= 1
               /\ ~Has(slot, "exec_forward")
               /\ \A m \in SentBy(slot) : m.bytes = run[slot].mediaData.buffer

\* C29: two transcodes in flight at the same time never use the same
\* temporary input or output path, and the bytes a run's transcode of the
\* process stage resolves with are the conversion of that run's own input.
TranscodePathsDistinct ==
    /\ \A a, b \in Pair :
            (a # b /\ pc[a] = "exec" /\ pc[b] = "exec")
                => /\ run[a].tx.inputPath # run[b].tx.inputPath
                   /\ run[a].tx.outputPath # run[b].tx.outputPath
    /\ \A a \in Pair :
            Has(a, "tx_ok") => run[a].mediaData.buffer = Convert(run[a].original)

\* The paths saveToTemp gives the artifact of a view-once image.
ArtifactPaths == {<<"viewonce_", t, "image", t, "jpg">> : t \in 0..MaxTime}

\* The file stored under path p, if any.
Stored(p) == {f \in tempDir : f.path = p}

\* C30: every artifact saveToTemp writes has a name the sweep selects, and
\* while the module keeps running and the interval keeps firing every saved
\* artifact is in the end removed, by a sweep of the interval and not
\* before it is older than maxTempAge (for the artifacts that get older than
\* maxTempAge before the clock of the model stops).
SelfEvicting ==
    /\ [](\A slot \in Slots :
            run[slot].savedPath # None => Prefixed(run[slot].savedPath[1]))
    /\ [][\A p \in ArtifactPaths :
            (Stored(p) # {} /\ Stored(p)' = {})
                => /\ Sweeps
                   /\ sweep'.by = "timer"
                   /\ \A f \in Stored(p) : Age(f) > config.maxTempAge]_vars
    /\ \A p \in ArtifactPaths :
            (\E f \in Stored(p) : f.mtime + config.maxTempAge < MaxTime)
                ~> (Stored(p) = {})

\* C30 witness: the artifact a run saved is no longer in the temp directory
\* after a sweep of the interval that removed a file.
SelfEvictingWitness ==
    \E slot \in Slots :
        /\ run[slot].savedPath # None
        /\ Has(slot, "write_ok")
        /\ Stored(run[slot].savedPath[1]) = {}
        /\ sweep.by = "timer"
        /\ sweep.cleaned >= 1

\* No run is in flight: every invocation has returned (or none was made).
Quiescent == \A slot \in Pair : pc[slot] \in {"idle", "done"}

\* The runs that returned a result with success = true.
Succeeded == {slot \in Pair : run[slot].result # None /\ Result(slot).success}

\* C31: the counters never decrease, and whenever no run is in flight
\* processed is the number of runs that returned success = true, saved the
\* number of those whose result has a savedPath and forwarded the number of
\* those whose result has forwarded = true; so then saved <= processed and
\* forwarded <= processed.
CountersMatchResults ==
    /\ [](Quiescent
            => /\ stats.processed = Cardinality(Succeeded)
               /\ stats.saved
                    = Cardinality({slot \in Succeeded : Result(slot).savedPath # None})
               /\ stats.forwarded
                    = Cardinality({slot \in Succeeded : Result(slot).forwarded})
               /\ stats.saved <= stats.processed
               /\ stats.forwarded <= stats.processed)
    /\ [][/\ stats'.processed >= stats.processed
           /\ stats'.saved >= stats.saved
           /\ stats'.forwarded >= stats.forwarded
           /\ stats'.errors >= stats.errors]_vars

\* C31 witness: two runs have returned success = true and no run is in
\* flight; one of them saved and could not forward, the other forwarded and
\* could not save.
CountersMatchResultsWitness ==
    /\ Quiescent
    /\ stats.processed = 2
    /\ stats.saved = 1
    /\ stats.forwarded = 1
    /\ \E a, b \in Succeeded :
            /\ Result(a).savedPath # None
            /\ ~Result(a).forwarded
            /\ Result(b).savedPath = None
            /\ Result(b).forwarded

====
